---- MODULE Spec2Model ----
(***************************************************************************)
(* Attendance eligibility and late-status evaluation of Madina-Attend:     *)
(* validateLogin and its helpers (lib/attendanceLogic, src/unnamed/        *)
(* part_002 lines 1-363, the revision that returns easternTime and that    *)
(* api/checkin/route.ts calls), the week numbering of the same file        *)
(* (calculateWeekNumber, getWeekDateRange), the check-in and checkout      *)
(* paths of the route with the attendance collection of lib/firestore.ts,  *)
(* and the roster operations (searchStudents, add-student, bulk import,    *)
(* delete-student).                                                        *)
(*                                                                         *)
(* Time is modelled at the granularity the code reads it: a day number     *)
(* (day 0 is a Sunday, so day % 7 is Date.getDay()), the minute of the     *)
(* day, and the second of the minute.                                      *)
(***************************************************************************)
EXTENDS Integers, Sequences, FiniteSets, TLC

\* ------------------------------------------------------------------ bounds

\* UTC calendar days of the modelled window (day 0 is a Sunday).
NumDays == 7

\* The second-of-minute sampled besides :00.
SampleSecond == 30

Seconds == {0, SampleSecond}

MinutesPerDay == 24 * 60

\* ------------------------------------------------- optional fields, numbers

\* An optional field of a TypeScript object: absent, or present with a value.
None == {}
Some(x) == {x}
Get(o) == CHOOSE x \in o : TRUE

\* A JavaScript number that may be NaN; every comparison with NaN is false.
Num(v) == [nan |-> FALSE, val |-> v]
NaN == [nan |-> TRUE, val |-> 0]
Lt(a, b) == ~a.nan /\ ~b.nan /\ a.val < b.val
Gt(a, b) == ~a.nan /\ ~b.nan /\ a.val > b.val
StrictEq(a, b) == ~a.nan /\ ~b.nan /\ a.val = b.val
Sub(a, b) == IF a.nan \/ b.nan THEN NaN ELSE Num(a.val - b.val)

\* ------------------------------------------------------------ configuration

ClassTypes == {"weekend", "weekday", "both"}
DayTypes == {"weekend", "weekday"}

\* "HH:MM" is kept as the pair <<HH, MM>> that split(":").map(Number) yields.
CLASS_SCHEDULES ==
  [weekend |-> [start |-> <<12, 0>>, end |-> <<13, 30>>,
                lateThresholdMinutes |-> 15, earlyLoginMinutes |-> 60],
   weekday |-> [start |-> <<17, 30>>, end |-> <<19, 30>>,
                lateThresholdMinutes |-> 15, earlyLoginMinutes |-> 60]]

dayNames ==
  <<"Sunday", "Monday", "Tuesday", "Wednesday", "Thursday", "Friday", "Saturday">>

\* What { hour12: false } resolves to for en-US depends on the runtime's
\* ECMA-402 level: hour cycle h23 prints the midnight hour as "00", h24
\* (V8 since 8.0 until it adopted the 2023 hour12 rule) prints it as "24".
HourCycles == {"h23", "h24"}

\* ------------------------------------------------------------------- state

VARIABLES
  hourCycle,          \* the hour cycle the runtime gives { hour12: false }
  studentClassType,   \* student.classType of the request
  loginTime,          \* the instant passed to validateLogin (UTC fields)
  result,             \* None, or Some(the LoginValidationResult returned)
  phases,             \* the outcomes returned so far, repetitions merged
  calls,              \* the validateLogin calls in progress, by caller
  serverZone,         \* the time zone of the Node process (its local time)
  weekCalc,           \* a week-number computation: its inputs and results
  clock,              \* what new Date() returns at this moment
  attendance,         \* the documents of the "attendance" collection
  requests,           \* the check-in and checkout requests in progress
  students,           \* the documents of the "students" collection
  addRequests,        \* the add-student requests in progress
  bulkImport          \* the bulkImportStudents call in progress

vars ==
  <<hourCycle, studentClassType, loginTime, result, phases, calls,
    serverZone, weekCalc, clock, attendance, requests,
    students, addRequests, bulkImport>>

\* The state of the week-number computations and of the check-in route.
weekVars == <<serverZone, weekCalc>>
routeVars == <<clock, attendance, requests>>

\* The state of the roster and of its administration.
rosterVars == <<students, addRequests, bulkImport>>

\* An instant, by its UTC calendar fields and by whether daylight-saving time
\* is in force in America/New_York on its date.
Instants ==
  [day : 0 .. NumDays - 1, minute : 0 .. MinutesPerDay - 1,
   second : Seconds, dst : BOOLEAN]

\* ------------------------------------------------------------ getEasternTime

\* The wall clock of America/New_York at instant t: UTC-4 under daylight
\* saving, UTC-5 otherwise (what toLocaleString's timeZone option computes).
EasternCivil(t) ==
  LET offset == IF t.dst THEN 4 * 60 ELSE 5 * 60
      total == t.day * MinutesPerDay + t.minute - offset
  IN [day |-> total \div MinutesPerDay,
      hour |-> (total % MinutesPerDay) \div 60,
      minute |-> total % 60,
      second |-> t.second]

\* now.toLocaleString("en-US", {..., hour: "2-digit", hour12: false}): the
\* fields of easternTimeString; under h24 the hour 0 is printed "24".
easternTimeString(t) ==
  LET c == EasternCivil(t)
  IN [day |-> c.day,
      hour |-> IF hourCycle = "h24" /\ c.hour = 0 THEN 24 ELSE c.hour,
      minute |-> c.minute,
      second |-> c.second]

\* new Date(`${year}-${month}-${day}T${hour}:${minute}:${second}`): an ISO
\* date-time without offset, read as local time. Hour 24 is accepted only as
\* 24:00:00, the midnight ending that day; any other 24:mm:ss is an Invalid
\* Date.
ParseLocalDateTime(s) ==
  IF s.hour < 24
    THEN [valid |-> TRUE, day |-> s.day, hour |-> s.hour,
          minute |-> s.minute, second |-> s.second]
    ELSE IF s.minute = 0 /\ s.second = 0
      THEN [valid |-> TRUE, day |-> s.day + 1, hour |-> 0,
            minute |-> 0, second |-> 0]
      ELSE [valid |-> FALSE]

getEasternTime(date) == ParseLocalDateTime(easternTimeString(date))

\* Date.prototype.getDay(): 0 = Sunday ... 6 = Saturday, NaN for Invalid Date.
getDay(d) == IF d.valid THEN Num(d.day % 7) ELSE NaN

timeToMinutes(timeStr) == timeStr[1] * 60 + timeStr[2]

dateToMinutes(date) ==
  IF date.valid THEN Num(date.hour * 60 + date.minute) ELSE NaN

\* Mutants: the "both" wildcard forgotten; the eligibility check always passing.
canAttendClass_NoBoth(student, sessionClassType) == student = sessionClassType

canAttendClass_Always(student, sessionClassType) == TRUE

canAttendClass(student, sessionClassType) ==
  IF student = "both" THEN TRUE ELSE student = sessionClassType

\* ------------------------------------------------------------- validateLogin

\* `${hours} hour${hours > 1 ? "s" : ""} and ${minutes} minute...`
timeMessage(hours, minutes) ==
  LET h == <<hours, IF hours > 1 THEN "hours" ELSE "hour">>
      m == <<minutes, IF minutes > 1 THEN "minutes" ELSE "minute">>
  IN IF hours > 0 /\ minutes > 0 THEN h \o <<"and">> \o m
     ELSE IF hours > 0 THEN h
     ELSE m

\* The 12-hour display of schedule.start.
displayTime(start) ==
  IF start[1] >= 12
    THEN <<IF start[1] = 12 THEN 12 ELSE start[1] - 12, start[2], "PM">>
    ELSE <<IF start[1] = 0 THEN 12 ELSE start[1], start[2], "AM">>

\* currentMinutes < earlyLoginMinutes
isTooEarly(currentMinutes, earlyLoginMinutes) ==
  Lt(currentMinutes, Num(earlyLoginMinutes))

\* currentMinutes > classEndMinutes
hasClassEnded(currentMinutes, classEndMinutes) ==
  Gt(currentMinutes, Num(classEndMinutes))

\* Mutants: late from the threshold minute on (>=); the comparison reversed.
isLate_AtThreshold(currentMinutes, lateThresholdMinutes) ==
  ~Lt(currentMinutes, Num(lateThresholdMinutes)) /\ ~currentMinutes.nan

isLate_Reversed(currentMinutes, lateThresholdMinutes) ==
  Lt(currentMinutes, Num(lateThresholdMinutes))

\* currentMinutes > lateThresholdMinutes
isLate(currentMinutes, lateThresholdMinutes) ==
  Gt(currentMinutes, Num(lateThresholdMinutes))

\* Mutants: the minute of the day reported unsubtracted; the subtraction
\* reversed.
lateBy_Raw(currentMinutes, classStartMinutes) == currentMinutes

lateBy_Reversed(currentMinutes, classStartMinutes) ==
  Sub(Num(classStartMinutes), currentMinutes)

\* minutesLate of a late result: currentMinutes - classStartMinutes
lateBy(currentMinutes, classStartMinutes) ==
  Sub(currentMinutes, Num(classStartMinutes))

\* minutesLate of an on-time result
onTimeMinutesLate == Num(0)

\* The day type validateLogin derives from the converted time.
dayTypeOf(easternTime) ==
  LET dayOfWeek == getDay(easternTime)
      isWeekend == StrictEq(dayOfWeek, Num(0)) \/ StrictEq(dayOfWeek, Num(6))
  IN IF isWeekend THEN "weekend" ELSE "weekday"

\* determineClassType(date): the day type of the converted time.
determineClassType(date) == dayTypeOf(getEasternTime(date))

\* validateLogin from the converted time on (everything after the single
\* getEasternTime call).
validateEastern(student, easternTime) ==
  LET dayOfWeek == getDay(easternTime)
      currentDayType == dayTypeOf(easternTime)
      dayName ==
        IF dayOfWeek.nan THEN "undefined" ELSE dayNames[dayOfWeek.val + 1]
      canAttend == canAttendClass(student, currentDayType)
      schedule == CLASS_SCHEDULES[currentDayType]
      currentMinutes == dateToMinutes(easternTime)
      classStartMinutes == timeToMinutes(schedule.start)
      classEndMinutes == timeToMinutes(schedule.end)
      earlyLoginMinutes == classStartMinutes - schedule.earlyLoginMinutes
      lateThresholdMinutes == classStartMinutes + schedule.lateThresholdMinutes
      minutesUntilEarlyLogin == earlyLoginMinutes - currentMinutes.val
      rejected(reason) ==
        [allowed |-> FALSE, reason |-> Some(reason), status |-> None,
         dayType |-> currentDayType, minutesLate |-> None,
         easternTime |-> easternTime]
  IN IF ~canAttend
       THEN rejected([category |-> "wrong_day", registered |-> student,
                      dayName |-> dayName,
                      todayIs |-> IF student = "weekend" THEN "weekday"
                                  ELSE IF student = "weekday" THEN "weekend"
                                  ELSE currentDayType])
     ELSE IF isTooEarly(currentMinutes, earlyLoginMinutes)
       THEN rejected([category |-> "too_early",
                      displayTime |-> displayTime(schedule.start),
                      timeMessage |->
                        timeMessage(minutesUntilEarlyLogin \div 60,
                                    minutesUntilEarlyLogin % 60)])
     ELSE IF hasClassEnded(currentMinutes, classEndMinutes)
       THEN rejected([category |-> "class_ended"])
     ELSE IF isLate(currentMinutes, lateThresholdMinutes)
       THEN [allowed |-> TRUE, reason |-> None, status |-> Some("late"),
             dayType |-> currentDayType,
             minutesLate |-> Some(lateBy(currentMinutes, classStartMinutes)),
             easternTime |-> easternTime]
     ELSE [allowed |-> TRUE, reason |-> None, status |-> Some("on_time"),
           dayType |-> currentDayType,
           minutesLate |-> Some(onTimeMinutesLate),
           easternTime |-> easternTime]

\* Convert to Eastern Time once, reuse for all checks.
validateLogin(student, time) == validateEastern(student, getEasternTime(time))

\* ------------------------------------------------------------ week numbering

\* The calendar of the week computations: day 0 is Sunday 2026-02-01, and a
\* "YYYY-MM-DD" string is kept as its day number. A time value (getTime) is
\* in minutes since 2026-02-01T00:00Z.
NumWeekDays == 56

\* process.env.SYSTEM_START_DATE || "2026-02-06"
DefaultSystemStartDate == 5

\* The local time of the Node process: UTC on the hosting platform, the
\* organisation's own zone on a machine set to it (npm run dev).
ServerZones == {"UTC", "America/New_York"}

\* America/New_York goes from UTC-5 to UTC-4 on Sunday 2026-03-08 (day 35) at
\* 02:00 local time, which is 07:00Z.
SpringForwardDay == 35
SpringForward == SpringForwardDay * MinutesPerDay + 7 * 60

\* Whether daylight-saving time is in force in America/New_York at a time value.
IsDst(time) == time >= SpringForward

\* Date.prototype.getTimezoneOffset() at a time value, in minutes.
getTimezoneOffset(time) ==
  IF serverZone = "UTC" THEN 0
  ELSE IF IsDst(time) THEN 4 * 60
  ELSE 5 * 60

\* The Date of a time value, by its local fields (to the minute).
DateOf(time) ==
  LET local == time - getTimezoneOffset(time)
  IN [valid |-> TRUE, day |-> local \div MinutesPerDay,
      hour |-> (local % MinutesPerDay) \div 60, minute |-> local % 60,
      second |-> 0]

\* Date.prototype.getTime() of a Date given by local fields (to the minute);
\* a local time the spring-forward skips is read with the offset before it.
getTime(date) ==
  LET local == date.day * MinutesPerDay + date.hour * 60 + date.minute
  IN IF serverZone = "UTC" THEN local
     ELSE IF local >= SpringForwardDay * MinutesPerDay + 3 * 60
       THEN local + 4 * 60
     ELSE local + 5 * 60

\* new Date("YYYY-MM-DD"): a date-only ISO string is midnight UTC of that day.
ParseDateOnly(dateStr) == DateOf(dateStr * MinutesPerDay)

\* Mutant: the time of day left in place.
setHours_Kept(date) == date

\* date.setHours(0, 0, 0, 0): the start of the date's local day.
setHours(date) == [date EXCEPT !.hour = 0, !.minute = 0, !.second = 0]

\* date.getDate() and date.setDate(dayValue): the local day, the local time of
\* day kept.
getDate(date) == date.day
setDate(date, dayValue) == DateOf(getTime([date EXCEPT !.day = dayValue]))

\* date.toISOString().split("T")[0]: the UTC calendar day of the Date.
formatDate(date) == getTime(date) \div MinutesPerDay

\* Mutant: the remainder taken instead of the quotient.
weekOfDays_Modulo(diffDays) == (diffDays % 7) + 1

\* Math.floor(diffDays / 7) + 1
weekOfDays(diffDays) == diffDays \div 7 + 1

\* calculateWeekNumber(date, systemStartDate); an Invalid Date gives NaN, and
\* NaN > 0 is false.
calculateWeekNumber(date, systemStartDate) ==
  IF ~date.valid THEN 1
  ELSE
    LET startDate == setHours(ParseDateOnly(systemStartDate))
        currentDate == setHours(date)
        diffMs == getTime(currentDate) - getTime(startDate)
        diffDays == diffMs \div MinutesPerDay
        weekNumber == weekOfDays(diffDays)
    IN IF weekNumber > 0 THEN weekNumber ELSE 1

\* getWeekDateRange(weekNumber, systemStartDate)
getWeekDateRange(weekNumber, systemStartDate) ==
  LET startDate == ParseDateOnly(systemStartDate)
      weekStartDate == setDate(startDate, getDate(startDate) + (weekNumber - 1) * 7)
      weekEndDate == setDate(weekStartDate, getDate(weekStartDate) + 6)
  IN [startDate |-> formatDate(weekStartDate),
      endDate |-> formatDate(weekEndDate)]

\* ----------------------------------------------------------- specification

\* The outcome of a result: one of the three rejections or the two statuses.
Outcome(r) == IF r.allowed THEN Get(r.status) ELSE Get(r.reason).category

\* The outcomes seen so far with r's appended, unless it repeats the last one.
Observe(seen, r) ==
  IF seen # <<>> /\ seen[Len(seen)] = Outcome(r)
    THEN seen
    ELSE Append(seen, Outcome(r))

NoCalls == <<>>
NoWeekCalc == <<>>
NoClock == <<>>

\* No week-number computation: validateLogin reads back the local fields it
\* parsed itself, so the zone of the process plays no part in it.
WeekIdle == serverZone = "UTC" /\ weekCalc = NoWeekCalc

\* No check-in request and no attendance document.
RouteIdle == clock = NoClock /\ attendance = <<>> /\ requests = <<>>

\* No roster and nobody administering it.
NoImport == <<>>
RosterIdle == students = <<>> /\ addRequests = <<>> /\ bulkImport = NoImport

\* A request: a student of some class type calls validateLogin at an instant.
Init ==
  /\ WeekIdle /\ RouteIdle /\ RosterIdle
  /\ hourCycle \in HourCycles
  /\ studentClassType \in ClassTypes
  /\ loginTime \in Instants
  /\ result = None
  /\ phases = <<>>
  /\ calls = NoCalls

\* const now = new Date(); const validation = validateLogin(student.classType, now)
Validate ==
  /\ result = None
  /\ result' = Some(validateLogin(studentClassType, loginTime))
  /\ phases' = Observe(phases, Get(result'))
  /\ UNCHANGED <<hourCycle, studentClassType, loginTime, calls>>
  /\ UNCHANGED <<weekVars, routeVars, rosterVars>>

Next == Validate

Spec == Init /\ [][Next]_vars

\* ---------------------------------------- one student's requests over a day

\* The instant's Eastern civil day type and minute of the day, and the
\* schedule entry of that day type in minutes since midnight.
CivilDayType(t) ==
  IF EasternCivil(t).day % 7 \in {0, 6} THEN "weekend" ELSE "weekday"
NowMin(t) == EasternCivil(t).hour * 60 + EasternCivil(t).minute
StartMin(t) == timeToMinutes(CLASS_SCHEDULES[CivilDayType(t)].start)
EndMin(t) == timeToMinutes(CLASS_SCHEDULES[CivilDayType(t)].end)
EarlyOpenMin(t) ==
  StartMin(t) - CLASS_SCHEDULES[CivilDayType(t)].earlyLoginMinutes
LateThresholdMin(t) ==
  StartMin(t) + CLASS_SCHEDULES[CivilDayType(t)].lateThresholdMinutes

\* The instant one minute after t.
PlusMinute(t) ==
  IF t.minute + 1 < MinutesPerDay
    THEN [t EXCEPT !.minute = t.minute + 1]
    ELSE [t EXCEPT !.day = t.day + 1, !.minute = 0]

\* The student is of a class type that matches the day, and the first request
\* comes at the minute the admission window opens.
InitDay ==
  /\ WeekIdle /\ RouteIdle /\ RosterIdle
  /\ hourCycle \in HourCycles
  /\ studentClassType \in ClassTypes
  /\ loginTime \in {t \in Instants :
                      /\ canAttendClass(studentClassType, CivilDayType(t))
                      /\ NowMin(t) = EarlyOpenMin(t)}
  /\ result = None
  /\ phases = <<>>
  /\ calls = NoCalls

\* The next request, one minute later on the same civil day.
NextMinuteRequest ==
  /\ result # None
  /\ NowMin(loginTime) < MinutesPerDay - 1
  /\ loginTime' = PlusMinute(loginTime)
  /\ result' = Some(validateLogin(studentClassType, loginTime'))
  /\ phases' = Observe(phases, Get(result'))
  /\ UNCHANGED <<hourCycle, studentClassType, calls>>
  /\ UNCHANGED <<weekVars, routeVars, rosterVars>>

NextDay == Validate \/ NextMinuteRequest

SpecDay == InitDay /\ [][NextDay]_vars

\* ------------------------------------------------- two calls at the same time

Callers == {1, 2}

\* Instants on the grid of the concurrent specification.
GridMinutes == 30
GridInstants ==
  [day : 0 .. NumDays - 1,
   minute : {m * GridMinutes : m \in 0 .. (MinutesPerDay \div GridMinutes) - 1},
   second : Seconds, dst : BOOLEAN]

SameCivilMinute(t, u) ==
  /\ EasternCivil(t).day % 7 = EasternCivil(u).day % 7
  /\ NowMin(t) = NowMin(u)

\* The instants of the window in the same Eastern minute as t: any second of
\* it, under either offset (the UTC fields an hour apart).
SameMinuteInstants(t) ==
  {u \in [day : {t.day - 1, t.day, t.day + 1} \cap (0 .. NumDays - 1),
          minute : {(t.minute + d) % MinutesPerDay : d \in {0 - 60, 0, 60}},
          second : Seconds, dst : BOOLEAN] : SameCivilMinute(t, u)}

\* Two callers are about to call validateLogin, each with its own class type
\* and instant; the instants fall in the same Eastern minute of the same day
\* of the week.
NewCall(classType, time) ==
  [classType |-> classType, time |-> time, pc |-> "start",
   easternTime |-> None, result |-> None]

InitCalls ==
  /\ WeekIdle /\ RouteIdle /\ RosterIdle
  /\ hourCycle \in HourCycles
  /\ studentClassType \in ClassTypes
  /\ loginTime \in GridInstants
  /\ result = None
  /\ phases = <<>>
  /\ \E otherType \in ClassTypes :
       \E otherTime \in SameMinuteInstants(loginTime) :
         calls = [c \in Callers |->
                    IF c = 1 THEN NewCall(studentClassType, loginTime)
                    ELSE NewCall(otherType, otherTime)]

\* const easternTime = getEasternTime(loginTime), a local of the call
Convert(c) ==
  /\ calls[c].pc = "start"
  /\ calls' = [calls EXCEPT ![c].pc = "converted",
                            ![c].easternTime =
                              Some(getEasternTime(calls[c].time))]
  /\ UNCHANGED <<hourCycle, studentClassType, loginTime, result, phases>>
  /\ UNCHANGED <<weekVars, routeVars, rosterVars>>

\* the rest of the call, on its own easternTime
Decide(c) ==
  /\ calls[c].pc = "converted"
  /\ calls' = [calls EXCEPT ![c].pc = "done",
                            ![c].result =
                              Some(validateEastern(calls[c].classType,
                                                   Get(calls[c].easternTime)))]
  /\ UNCHANGED <<hourCycle, studentClassType, loginTime, result, phases>>
  /\ UNCHANGED <<weekVars, routeVars, rosterVars>>

NextCalls == \E c \in Callers : Convert(c) \/ Decide(c)

SpecCalls == InitCalls /\ [][NextCalls]_vars

\* -------------------------------------------------- week-number computations

\* The largest week number asked of getWeekDateRange.
MaxWeek == 8

\* The distance in days between the epoch dates tried.
EpochStride == 5

\* The epoch dates (the default one and every EpochStride days around it),
\* and the Dates of every hour of the window.
EpochDates ==
  {d \in 0 .. NumWeekDays - 1 : d % EpochStride = DefaultSystemStartDate % EpochStride}
WeekDates == {DateOf(h * 60) : h \in 0 .. NumWeekDays * 24 - 1}

NewWeekCalc(systemStartDate, date, weekNumber) ==
  [systemStartDate |-> systemStartDate, date |-> date,
   weekNumber |-> weekNumber, range |-> None, weekOfStart |-> None]

\* Either the week number of a date is asked for, or the range of a week.
InitWeek ==
  /\ hourCycle = "h23" /\ studentClassType = "both"
  /\ loginTime = [day |-> 0, minute |-> 0, second |-> 0, dst |-> FALSE]
  /\ result = None /\ phases = <<>> /\ calls = NoCalls
  /\ RouteIdle /\ RosterIdle
  /\ serverZone \in ServerZones
  /\ \E systemStartDate \in EpochDates :
       \/ \E date \in WeekDates :
            weekCalc = NewWeekCalc(systemStartDate, Some(date), None)
       \/ \E weekNumber \in 1 .. MaxWeek :
            weekCalc = NewWeekCalc(systemStartDate, None, Some(weekNumber))

\* weekNumber = calculateWeekNumber(date, systemStartDate)
CalculateWeekNumber ==
  /\ weekCalc.date # None
  /\ weekCalc.weekNumber = None
  /\ weekCalc' =
       [weekCalc EXCEPT !.weekNumber =
          Some(calculateWeekNumber(Get(weekCalc.date), weekCalc.systemStartDate))]
  /\ UNCHANGED <<hourCycle, studentClassType, loginTime, result, phases, calls>>
  /\ UNCHANGED <<serverZone, routeVars, rosterVars>>

\* range = getWeekDateRange(weekNumber, systemStartDate)
GetWeekDateRange ==
  /\ weekCalc.weekNumber # None
  /\ weekCalc.range = None
  /\ weekCalc' =
       [weekCalc EXCEPT !.range =
          Some(getWeekDateRange(Get(weekCalc.weekNumber),
                                weekCalc.systemStartDate))]
  /\ UNCHANGED <<hourCycle, studentClassType, loginTime, result, phases, calls>>
  /\ UNCHANGED <<serverZone, routeVars, rosterVars>>

\* calculateWeekNumber(new Date(range.startDate), systemStartDate)
WeekOfStartDate ==
  /\ weekCalc.date = None
  /\ weekCalc.range # None
  /\ weekCalc.weekOfStart = None
  /\ weekCalc' =
       [weekCalc EXCEPT !.weekOfStart =
          Some(calculateWeekNumber(ParseDateOnly(Get(weekCalc.range).startDate),
                                   weekCalc.systemStartDate))]
  /\ UNCHANGED <<hourCycle, studentClassType, loginTime, result, phases, calls>>
  /\ UNCHANGED <<serverZone, routeVars, rosterVars>>

NextWeek == CalculateWeekNumber \/ GetWeekDateRange \/ WeekOfStartDate

SpecWeek == InitWeek /\ [][NextWeek]_vars

\* ------------------------------------------------------------- the roster

\* A string is the sequence of its characters.  The letters the names of the
\* model are written in, with their lower-case forms and their char codes.
ToLower == ("A" :> "a") @@ ("B" :> "b") @@ ("C" :> "c")
charCode ==
  (" " :> 32) @@ ("A" :> 65) @@ ("B" :> 66) @@ ("C" :> 67) @@
  ("a" :> 97) @@ ("b" :> 98) @@ ("c" :> 99)

\* String.prototype.toLowerCase
toLowerCase(str) ==
  [i \in 1 .. Len(str) |->
     IF str[i] \in DOMAIN ToLower THEN ToLower[str[i]] ELSE str[i]]

\* String.prototype.trim
RECURSIVE trimStart(_)
trimStart(str) ==
  IF str # <<>> /\ Head(str) = " " THEN trimStart(Tail(str)) ELSE str
RECURSIVE trimEnd(_)
trimEnd(str) ==
  IF str # <<>> /\ str[Len(str)] = " "
    THEN trimEnd(SubSeq(str, 1, Len(str) - 1))
    ELSE str
trim(str) == trimEnd(trimStart(str))

\* String.prototype.includes, for one character
includes(str, char) == \E i \in 1 .. Len(str) : str[i] = char

\* String.prototype.startsWith
startsWith(str, searchString) ==
  /\ Len(searchString) <= Len(str)
  /\ SubSeq(str, 1, Len(searchString)) = searchString

\* str.split(' ')[0]: the text before the first space, or all of it.
firstWord(str) ==
  LET spaces == {i \in 1 .. Len(str) : str[i] = " "}
  IN IF spaces = {} THEN str
     ELSE SubSeq(str, 1, (CHOOSE i \in spaces : \A j \in spaces : i <= j) - 1)

\* `${firstName.trim()} ${lastName.trim()}`
fullNameOf(firstName, lastName) == trim(firstName) \o <<" ">> \o trim(lastName)

\* The order of orderBy("name"): strings compared code by code.
RECURSIVE nameBefore(_, _)
nameBefore(strA, strB) ==
  IF strA = <<>> THEN strB # <<>>
  ELSE IF strB = <<>> THEN FALSE
  ELSE IF Head(strA) # Head(strB)
    THEN charCode[Head(strA)] < charCode[Head(strB)]
  ELSE nameBefore(Tail(strA), Tail(strB))

\* Mutant: the query without its where("active", "==", true).
getActiveStudents_All == {students[id] : id \in DOMAIN students}

\* getActiveStudents: the documents with active == true (their order is that
\* of nameBefore).
getActiveStudents == {students[id] : id \in {i \in DOMAIN students : students[i].active}}

\* searchStudents(searchTerm): the active students the term selects.
searchMatches(studentName, searchLower) ==
  LET fullNameLower == toLowerCase(studentName)
  IN \/ /\ includes(searchLower, " ")
        /\ \/ fullNameLower = searchLower
           \/ startsWith(fullNameLower, searchLower)
     \/ startsWith(toLowerCase(firstWord(studentName)), searchLower)
searchStudents(searchTerm) ==
  LET searchLower == trim(toLowerCase(searchTerm))
  IN IF searchLower = <<>> THEN getActiveStudents
     ELSE {doc \in getActiveStudents : searchMatches(doc.name, searchLower)}

\* The documents that can be first in a result ordered by name.
firstByName(docs) ==
  {doc \in docs : \A other \in docs : ~nameBefore(other.name, doc.name)}

\* addStudent(name, classType): the document addDoc stores.
newStudent(id, studentName, classType) ==
  [id |-> id, name |-> trim(studentName), classType |-> classType,
   active |-> TRUE]

\* --------------------------------------------------- the check-in route, POST

\* The students of the roster and the requests in flight.
Students == {1, 2}
Requesters == {1, 2}

\* The names of the students of the roster: two whose first names share a
\* prefix.
RosterNames == <<(<<"A", " ", "B">>), (<<"A", "b", " ", "C">>)>>

\* The roster the requests are served from: both students active, of the
\* class type of the run.
Roster ==
  [id \in Students |-> newStudent(id, RosterNames[id], studentClassType)]

\* Minutes the clock may advance while the requests are processed.
MaxElapsed == 2

\* The instant of a time value (to the minute), and the time value of an
\* instant.
InstantAt(time) ==
  [day |-> time \div MinutesPerDay, minute |-> time % MinutesPerDay,
   second |-> 0, dst |-> IsDst(time)]
TimeValue(t) == t.day * MinutesPerDay + t.minute

\* The instant at which the wall clock of America/New_York shows hour:minute
\* on a day (not in the night of the spring-forward).
AtEastern(day, hour, minute) ==
  LET local == day * MinutesPerDay + hour * 60 + minute
  IN InstantAt(IF day >= SpringForwardDay THEN local + 4 * 60 ELSE local + 5 * 60)

\* Where the first request arrives: the minute before a boundary of the
\* weekday schedule (Monday 2026-02-02 under EST, Monday 2026-03-09 under EDT),
\* of the weekend schedule (Saturday 2026-02-07), of the UTC day (19:00 EST,
\* also on Thursday 2026-02-12, the last day of week 1) and of the Eastern
\* day.
RouteStarts ==
  {AtEastern(1, 16, 29), AtEastern(1, 17, 44), AtEastern(1, 18, 59),
   AtEastern(1, 19, 29), AtEastern(1, 23, 59), AtEastern(11, 18, 59),
   AtEastern(36, 17, 44), AtEastern(36, 19, 29),
   AtEastern(6, 12, 14), AtEastern(6, 13, 29)}

\* The actions of a request, normalized.
Actions == {"checkin", "checkout"}

NewRequest(studentName, action) ==
  [name |-> studentName, action |-> action, pc |-> "search", student |-> None,
   now |-> None, validation |-> None, weekNumber |-> None,
   existingAttendance |-> None, response |-> None]

\* Mutant: the late status evaluated again at the moment of logging.
checkInIsLate_Reevaluated(validation, classType, at) ==
  validateLogin(classType, at).status = Some("late")

\* const isLate = validation.status === "late"
checkInIsLate(validation, classType, at) == validation.status = Some("late")

\* Mutant: const lateMinutes = validation.minutesLate ?? null
checkInLateMinutes_Nullish(validation) ==
  IF validation.minutesLate = None THEN None
  ELSE IF Get(validation.minutesLate).nan THEN None
  ELSE Some(Get(validation.minutesLate).val)

\* const lateMinutes = validation.minutesLate || null
checkInLateMinutes(validation) ==
  IF validation.minutesLate = None THEN None
  ELSE IF Get(validation.minutesLate).nan \/ Get(validation.minutesLate).val = 0
    THEN None
  ELSE Some(Get(validation.minutesLate).val)

\* new Date().toISOString().split("T")[0] at an instant: its UTC calendar day.
dateStr(at) == at.day

\* The document logCheckIn adds when it runs at the instant `at`.
attendanceData(attendanceId, doc, weekNumber, late, lateMinutes, at) ==
  [id |-> attendanceId, studentId |-> doc.id, studentName |-> doc.name,
   checkInTime |-> at, checkOutTime |-> None, classType |-> doc.classType,
   date |-> dateStr(at), weekNumber |-> weekNumber,
   isLate |-> late, lateMinutes |-> lateMinutes,
   status |-> IF late THEN "late" ELSE "present"]

\* The record of a check-in of a student served in one instant.
checkedInAt(attendanceId, doc, at) ==
  LET validation == validateLogin(doc.classType, at)
  IN attendanceData(attendanceId, doc,
                    calculateWeekNumber(validation.easternTime,
                                        DefaultSystemStartDate),
                    checkInIsLate(validation, doc.classType, at),
                    checkInLateMinutes(validation), at)

\* The attendance collection when the requests arrive: empty, or holding the
\* record of a check-in of the first student admitted at that instant.
EarlierAttendance ==
  {<<>>} \cup
  {<<checkedInAt(1, Roster[1], loginTime)>> : x \in
     {y \in {1} : validateLogin(studentClassType, loginTime).allowed}}

InitRoute ==
  /\ hourCycle \in HourCycles
  /\ studentClassType \in ClassTypes
  /\ serverZone \in ServerZones
  /\ weekCalc = NoWeekCalc
  /\ loginTime \in RouteStarts
  /\ result = None /\ phases = <<>> /\ calls = NoCalls
  /\ clock = [now |-> loginTime, elapsed |-> 0]
  /\ attendance \in EarlierAttendance
  /\ students = Roster
  /\ addRequests = <<>> /\ bulkImport = NoImport
  /\ \E other \in Students, action \in [Requesters -> Actions] :
       requests = [r \in Requesters |->
                     NewRequest(RosterNames[IF r = 1 THEN 1 ELSE other],
                                action[r])]

\* Time passes.
Tick ==
  /\ clock.elapsed < MaxElapsed
  /\ clock' = [now |-> InstantAt(TimeValue(clock.now) + 1),
               elapsed |-> clock.elapsed + 1]
  /\ UNCHANGED <<hourCycle, studentClassType, loginTime, result, phases, calls>>
  /\ UNCHANGED <<weekVars, attendance, requests, rosterVars>>

\* NextResponse.json(body, {status}) of the ways a request ends.
NotFound == [http |-> 404, status |-> "error"]
Rejected(validation) ==
  [http |-> 403, status |-> "error", message |-> Get(validation.reason)]
AlreadyCheckedIn(existingAttendance) ==
  [http |-> 200, status |-> "warning",
   checkInTime |-> existingAttendance.checkInTime, alreadyCheckedIn |-> TRUE]
CheckedIn(attendanceId, now, late, lateMinutes, classType, weekNumber) ==
  [http |-> 200, status |-> "success", attendanceId |-> attendanceId,
   checkInTime |-> now, isLate |-> late, lateMinutes |-> lateMinutes,
   classType |-> classType, weekNumber |-> weekNumber]
NotCheckedIn == [http |-> 400, status |-> "error"]
AlreadyCheckedOut(existingAttendance) ==
  [http |-> 200, status |-> "warning",
   checkOutTime |-> Get(existingAttendance.checkOutTime),
   alreadyCheckedOut |-> TRUE]
CheckedOut(existingAttendance, now) ==
  [http |-> 200, status |-> "success",
   attendanceId |-> existingAttendance.id,
   checkInTime |-> existingAttendance.checkInTime, checkOutTime |-> now]

\* students = await searchStudents(name.trim()); 404 if there is none,
\* student = students[0] otherwise.
SearchStudents(r) ==
  LET found == searchStudents(trim(requests[r].name))
  IN /\ requests[r].pc = "search"
     /\ IF found = {}
          THEN requests' = [requests EXCEPT ![r].pc = "done",
                                            ![r].response = Some(NotFound)]
          ELSE \E first \in firstByName(found) :
                 requests' = [requests EXCEPT ![r].pc = "start",
                                              ![r].student = Some(first)]
     /\ UNCHANGED <<hourCycle, studentClassType, loginTime, result, phases, calls>>
     /\ UNCHANGED <<weekVars, clock, attendance, rosterVars>>

\* Mutant: the rejection that does not return.
afterValidation_NoReturn(validation) == "getTodayAttendance"

\* if (!validation.allowed) return ...: where a check-in goes on after its
\* evaluation.
afterValidation(validation) ==
  IF validation.allowed THEN "getTodayAttendance" ELSE "done"

\* const now = new Date(); for a check-in, validation =
\* validateLogin(student.classType, now), weekNumber =
\* calculateWeekNumber(validation.easternTime) and 403 if rejected.
Evaluate(r) ==
  LET now == clock.now
      validation == validateLogin(Get(requests[r].student).classType, now)
      weekNumber ==
        calculateWeekNumber(validation.easternTime, DefaultSystemStartDate)
  IN /\ requests[r].pc = "start"
     /\ IF requests[r].action = "checkin"
          THEN requests' =
                 [requests EXCEPT
                    ![r].now = Some(now),
                    ![r].validation = Some(validation),
                    ![r].weekNumber = Some(weekNumber),
                    ![r].pc = afterValidation(validation),
                    ![r].response = IF validation.allowed THEN None
                                    ELSE Some(Rejected(validation))]
          ELSE requests' =
                 [requests EXCEPT ![r].now = Some(now),
                                  ![r].pc = "getTodayAttendance"]
     /\ UNCHANGED <<hourCycle, studentClassType, loginTime, result, phases, calls>>
     /\ UNCHANGED <<weekVars, clock, attendance, rosterVars>>

\* new Date().toISOString().split("T")[0]: the UTC calendar day of the moment.
todayString == dateStr(clock.now)

\* The documents the query of getTodayAttendance matches.
todayAttendance(studentId) ==
  {id \in DOMAIN attendance :
     /\ attendance[id].studentId = studentId
     /\ attendance[id].date = todayString}

\* The check-in after getTodayAttendance: the warning if a document was found.
CheckInLookup(r, found) ==
  IF found = None
    THEN requests' = [requests EXCEPT ![r].pc = "logCheckIn"]
    ELSE requests' =
           [requests EXCEPT
              ![r].existingAttendance = found,
              ![r].pc = "done",
              ![r].response = Some(AlreadyCheckedIn(Get(found)))]

\* The checkout after getTodayAttendance: 400 if no document was found, the
\* warning if the document found has a checkOutTime.
CheckOutLookup(r, found) ==
  IF found = None
    THEN requests' = [requests EXCEPT ![r].pc = "done",
                                      ![r].response = Some(NotCheckedIn)]
  ELSE IF Get(found).checkOutTime # None
    THEN requests' =
           [requests EXCEPT
              ![r].existingAttendance = found,
              ![r].pc = "done",
              ![r].response = Some(AlreadyCheckedOut(Get(found)))]
  ELSE requests' = [requests EXCEPT ![r].existingAttendance = found,
                                    ![r].pc = "logCheckOut"]

\* existingAttendance = await getTodayAttendance(student.id): one of the
\* matching documents (limit(1), no order given) or null, and what the
\* request does with it.
GetTodayAttendance(r) ==
  LET matching == todayAttendance(Get(requests[r].student).id)
      results == IF matching = {} THEN {None}
                 ELSE {Some(attendance[id]) : id \in matching}
  IN /\ requests[r].pc = "getTodayAttendance"
     /\ \E found \in results :
          IF requests[r].action = "checkin"
            THEN CheckInLookup(r, found)
            ELSE CheckOutLookup(r, found)
     /\ UNCHANGED <<hourCycle, studentClassType, loginTime, result, phases, calls>>
     /\ UNCHANGED <<weekVars, clock, attendance, rosterVars>>

\* logCheckIn(student.id, student.name, student.classType, weekNumber, isLate,
\* lateMinutes): the document, stamped with the moment of the call, is added
\* and the success response returned.
LogCheckIn(r) ==
  LET req == requests[r]
      doc == Get(req.student)
      validation == Get(req.validation)
      late == checkInIsLate(validation, doc.classType, clock.now)
      lateMinutes == checkInLateMinutes(validation)
      attendanceId == Len(attendance) + 1
  IN /\ req.pc = "logCheckIn"
     /\ attendance' =
          Append(attendance,
                 attendanceData(attendanceId, doc, Get(req.weekNumber), late,
                                lateMinutes, clock.now))
     /\ requests' =
          [requests EXCEPT
             ![r].pc = "done",
             ![r].response =
               Some(CheckedIn(attendanceId, Get(req.now), late, lateMinutes,
                              validation.dayType, Get(req.weekNumber)))]
     /\ UNCHANGED <<hourCycle, studentClassType, loginTime, result, phases, calls>>
     /\ UNCHANGED <<weekVars, clock, rosterVars>>

\* await logCheckOut(existingAttendance.id): checkOutTime of that document is
\* set to the moment of the call, and the success response returned.
LogCheckOut(r) ==
  LET req == requests[r]
      existingAttendance == Get(req.existingAttendance)
  IN /\ req.pc = "logCheckOut"
     /\ attendance' =
          [attendance EXCEPT
             ![existingAttendance.id].checkOutTime = Some(clock.now)]
     /\ requests' =
          [requests EXCEPT
             ![r].pc = "done",
             ![r].response = Some(CheckedOut(existingAttendance, Get(req.now)))]
     /\ UNCHANGED <<hourCycle, studentClassType, loginTime, result, phases, calls>>
     /\ UNCHANGED <<weekVars, clock, rosterVars>>

\* The steps of one request.
Serve(r) ==
  \/ SearchStudents(r)
  \/ Evaluate(r)
  \/ GetTodayAttendance(r)
  \/ LogCheckIn(r)
  \/ LogCheckOut(r)

NextRoute == Tick \/ \E r \in Requesters : Serve(r)

SpecRoute == InitRoute /\ [][NextRoute]_vars

\* --------------------------------------------- the delete-student route, DELETE

\* What the requests of this part type as the name: the full names of the
\* roster, a full name in lower case with spaces around it, and a first-name
\* prefix that selects both students.
TypedNames ==
  {RosterNames[1], RosterNames[2], <<" ", "a", " ", "b", " ">>, <<"a">>}

\* The check-in route on a Monday afternoon of the weekday class, served to a
\* weekday roster by a server in UTC, while the administrator deletes
\* students.
InitDelete ==
  /\ hourCycle = "h23"
  /\ studentClassType = "weekday"
  /\ serverZone = "UTC"
  /\ weekCalc = NoWeekCalc
  /\ loginTime = AtEastern(1, 17, 44)
  /\ result = None /\ phases = <<>> /\ calls = NoCalls
  /\ clock = [now |-> loginTime, elapsed |-> 0]
  /\ attendance \in EarlierAttendance
  /\ students = Roster
  /\ addRequests = <<>> /\ bulkImport = NoImport
  /\ \E typed \in [Requesters -> TypedNames], action \in [Requesters -> Actions] :
       requests = [r \in Requesters |-> NewRequest(typed[r], action[r])]

\* await deleteStudent(studentId): updateDoc(docRef, {active: false}).
DeleteStudent(studentId) ==
  /\ students' = [students EXCEPT ![studentId].active = FALSE]
  /\ UNCHANGED <<hourCycle, studentClassType, loginTime, result, phases, calls>>
  /\ UNCHANGED <<weekVars, routeVars, addRequests, bulkImport>>

NextDelete ==
  \/ NextRoute
  \/ \E studentId \in DOMAIN students : DeleteStudent(studentId)

SpecDelete == InitDelete /\ [][NextDelete]_vars

\* ------------------------------------------------- what the claims speak of

\* The returned LoginValidationResult, once validateLogin has returned.
returned == result # None
res == Get(result)

\* The instant of the request: its Eastern civil day type and minute of the
\* day, and the schedule entry of that day type.
civilDayType == CivilDayType(loginTime)
nowMin == NowMin(loginTime)
startMin == StartMin(loginTime)
endMin == EndMin(loginTime)
earlyOpenMin == EarlyOpenMin(loginTime)
lateThresholdMin == LateThresholdMin(loginTime)

compatible == studentClassType = "both" \/ studentClassType = civilDayType

Rejection(r, category) ==
  /\ ~r.allowed
  /\ r.reason # None
  /\ Get(r.reason).category = category
Admitted(r, status, minutesLate) ==
  /\ r.allowed
  /\ r.status = Some(status)
  /\ r.minutesLate = Some(Num(minutesLate))

\* C1: a weekend-only or weekday-only student whose class type differs from
\* the day type of the instant's Eastern civil day is rejected with wrong_day,
\* and the returned dayType is the day type of that civil day.
C1_WrongDayRejected ==
  (returned /\ studentClassType \in DayTypes /\ studentClassType # civilDayType)
    => /\ Rejection(res, "wrong_day")
       /\ res.dayType = civilDayType

\* The outcome the time-of-day checks of the specification give for a
\* schedule entry and a minute of the day (a JavaScript number).
TimeOfDayOutcome(schedule, minutes) ==
  LET start == timeToMinutes(schedule.start)
  IN IF Lt(minutes, Num(start - schedule.earlyLoginMinutes)) THEN "too_early"
     ELSE IF Gt(minutes, Num(timeToMinutes(schedule.end))) THEN "class_ended"
     ELSE IF Gt(minutes, Num(start + schedule.lateThresholdMinutes)) THEN "late"
     ELSE "on_time"

\* C2: a student of class type both is never rejected with wrong_day, at any
\* instant; the outcome is the one the time-of-day checks give against the
\* schedule entry of the day type the call observed.
C2_BothNeverWrongDay ==
  (returned /\ studentClassType = "both")
    => /\ ~Rejection(res, "wrong_day")
       /\ Outcome(res) =
            TimeOfDayOutcome(CLASS_SCHEDULES[res.dayType],
                             dateToMinutes(res.easternTime))

\* C2 witness: a both student has been admitted on a weekend day.
C2_Witness ==
  /\ returned
  /\ studentClassType = "both"
  /\ res.allowed
  /\ civilDayType = "weekend"
  /\ res.dayType = "weekend"

\* C3: at a class-type-compatible instant the check-in is admitted exactly
\* when earlyOpenMin <= nowMin <= endMin; before it is too_early, after it is
\* class_ended.
C3_AdmissionWindow ==
  (returned /\ compatible)
    => /\ res.allowed <=> (earlyOpenMin <= nowMin /\ nowMin <= endMin)
       /\ nowMin < earlyOpenMin => Rejection(res, "too_early")
       /\ nowMin > endMin => Rejection(res, "class_ended")

\* C4: inside the admission window the result is late with minutesLate =
\* nowMin - startMin exactly when nowMin > startMin + lateThresholdMinutes,
\* and on_time with minutesLate = 0 otherwise.
C4_LateThreshold ==
  (returned /\ compatible /\ earlyOpenMin <= nowMin /\ nowMin <= endMin)
    => IF nowMin > lateThresholdMin
         THEN Admitted(res, "late", nowMin - startMin)
         ELSE Admitted(res, "on_time", 0)

\* C4 witness: the threshold minute itself has been evaluated as on_time.
C4_Witness ==
  /\ returned
  /\ compatible
  /\ nowMin = lateThresholdMin
  /\ res.status = Some("on_time")

\* C5: from the minute the admission window opens to the end of the civil
\* day, a student of a matching class type sees on_time, then late, then
\* class_ended, each as one run of minutes and in that order.
DayPhases == <<"on_time", "late", "class_ended">>

C5_PhasesInOrder ==
  returned
    => /\ \E n \in 1 .. Len(DayPhases) : phases = SubSeq(DayPhases, 1, n)
       /\ nowMin = MinutesPerDay - 1 => phases = DayPhases

\* C5 witness: the last minute of the day has been evaluated, all three
\* phases seen.
C5_Witness ==
  /\ returned
  /\ nowMin = MinutesPerDay - 1
  /\ phases = DayPhases

\* The instant one minute before t.
MinusMinute(t) ==
  IF t.minute > 0
    THEN [t EXCEPT !.minute = t.minute - 1]
    ELSE [t EXCEPT !.day = t.day - 1, !.minute = MinutesPerDay - 1]

\* The result of the same student's request one minute earlier.
earlier == validateLogin(studentClassType, MinusMinute(loginTime))

\* C6 as claimed: every admitted check-in has minutesLate = nowMin - startMin,
\* strictly more than a minute earlier, and 0 at the on-time boundary.
C6_AsClaimed ==
  (returned /\ res.allowed)
    => /\ res.minutesLate = Some(Num(nowMin - startMin))
       /\ (nowMin > 0 /\ earlier.allowed)
            => Gt(Get(res.minutesLate), Get(earlier.minutesLate))
       /\ nowMin = lateThresholdMin => res.minutesLate = Some(Num(0))

\* C6 as amended: an admitted check-in has minutesLate = 0 when on_time and
\* minutesLate = nowMin - startMin when late; from one minute to the next of a
\* civil day it never decreases, and it increases strictly whenever the later
\* check-in is late; it is 0 at the on-time boundary.
C6_MinutesLate ==
  (returned /\ res.allowed)
    => /\ res.status = Some("on_time") => res.minutesLate = Some(Num(0))
       /\ res.status = Some("late")
            => res.minutesLate = Some(Num(nowMin - startMin))
       /\ (nowMin > 0 /\ earlier.allowed)
            => /\ ~Lt(Get(res.minutesLate), Get(earlier.minutesLate))
               /\ res.status = Some("late")
                    => Gt(Get(res.minutesLate), Get(earlier.minutesLate))
       /\ (compatible /\ nowMin = lateThresholdMin)
            => Admitted(res, "on_time", 0)

\* C6 witness: a late check-in a minute after another late check-in.
C6_Witness ==
  /\ returned
  /\ res.status = Some("late")
  /\ earlier.allowed
  /\ earlier.status = Some("late")

\* C7: a rejection carries a reason and neither status nor minutesLate; an
\* admission carries no reason, a status on_time or late, and minutesLate,
\* which is 0 exactly when on_time and above the late threshold when late;
\* every result carries dayType and the converted Eastern time.
ResultFields ==
  {"allowed", "reason", "status", "dayType", "minutesLate", "easternTime"}

C7_ResultShape ==
  returned
    => /\ DOMAIN res = ResultFields
       /\ res.dayType \in DayTypes
       /\ res.easternTime = getEasternTime(loginTime)
       /\ ~res.allowed
            => /\ res.reason # None
               /\ res.status = None
               /\ res.minutesLate = None
       /\ res.allowed
            => /\ res.reason = None
               /\ res.status \in {Some("on_time"), Some("late")}
               /\ res.minutesLate # None
               /\ res.minutesLate = Some(Num(0)) <=> res.status = Some("on_time")
               /\ res.status = Some("late")
                    => Gt(Get(res.minutesLate),
                          Num(CLASS_SCHEDULES[res.dayType].lateThresholdMinutes))

\* C7 witness: a late admission has been returned.
C7_Witness ==
  /\ returned
  /\ res.allowed
  /\ res.status = Some("late")
  /\ res.reason = None

\* C8: every call returns exactly one of the five outcomes; the class-type
\* check comes first, then too_early, then class_ended, then late/on_time.
Outcomes == {"wrong_day", "too_early", "class_ended", "on_time", "late"}

C8_FiveOutcomes ==
  returned
    => /\ Outcome(res) \in Outcomes
       /\ res.allowed <=> Outcome(res) \in {"on_time", "late"}
       /\ Outcome(res) =
            IF studentClassType # "both" /\ studentClassType # res.dayType
              THEN "wrong_day"
              ELSE TimeOfDayOutcome(CLASS_SCHEDULES[res.dayType],
                                    dateToMinutes(res.easternTime))

\* C8 witness: a request both on the wrong day and before the window opens
\* has been rejected with wrong_day.
C8_Witness ==
  /\ returned
  /\ ~compatible
  /\ nowMin < earlyOpenMin
  /\ Rejection(res, "wrong_day")

\* C9: with the production schedule a weekday or both student is admitted on
\* Monday to Friday exactly from 16:30 to 19:30, on_time up to 17:45 and late
\* after; a weekend or both student on Saturday and Sunday exactly from 11:00
\* to 13:30, on_time up to 12:15 and late after; and the five scenarios.
At(hour, minute) == hour * 60 + minute
civilDayOfWeek == EasternCivil(loginTime).day % 7

C9_ProductionSchedule ==
  returned
    => /\ (civilDayType = "weekday" /\ studentClassType \in {"weekday", "both"})
            => /\ res.allowed <=> (At(16, 30) <= nowMin /\ nowMin <= At(19, 30))
               /\ res.allowed
                    => res.status = IF nowMin <= At(17, 45) THEN Some("on_time")
                                    ELSE Some("late")
       /\ (civilDayType = "weekend" /\ studentClassType \in {"weekend", "both"})
            => /\ res.allowed <=> (At(11, 0) <= nowMin /\ nowMin <= At(13, 30))
               /\ res.allowed
                    => res.status = IF nowMin <= At(12, 15) THEN Some("on_time")
                                    ELSE Some("late")
       /\ (studentClassType = "weekday" /\ civilDayOfWeek = 1)
            => /\ nowMin = At(17, 0) => Admitted(res, "on_time", 0)
               /\ nowMin = At(15, 30) => Rejection(res, "too_early")
               /\ nowMin = At(17, 50) => Admitted(res, "late", 20)
       /\ (studentClassType = "weekend" /\ civilDayOfWeek = 6)
            => /\ nowMin = At(11, 30) => Admitted(res, "on_time", 0)
               /\ nowMin = At(10, 30) => Rejection(res, "too_early")

\* C10: each of two concurrent calls returns what the call alone returns, and
\* two calls with the same class type at instants of the same Eastern minute
\* of the same day of the week return the same decision, status and
\* minutesLate.
Done(c) == calls # NoCalls /\ calls[c].pc = "done"

C10_PureFunction ==
  \A c \in Callers :
    Done(c)
      => /\ calls[c].result =
              Some(validateLogin(calls[c].classType, calls[c].time))
         /\ \A d \in Callers :
              (/\ Done(d)
               /\ calls[d].classType = calls[c].classType
               /\ SameCivilMinute(calls[c].time, calls[d].time))
                => /\ Get(calls[c].result).allowed = Get(calls[d].result).allowed
                   /\ Get(calls[c].result).status = Get(calls[d].result).status
                   /\ Get(calls[c].result).minutesLate =
                        Get(calls[d].result).minutesLate

\* -------------------------------------------------------- week-number claims

\* The computation at hand: its epoch date, its date argument with the
\* calendar date that argument falls on, and its results.
epochDate == weekCalc.systemStartDate
dateGiven == weekCalc.date # None
weekDate == Get(weekCalc.date)
civilDate == weekDate.day
weekComputed == weekCalc.weekNumber # None
weekOut == Get(weekCalc.weekNumber)
rangeComputed == weekCalc.range # None
rangeOut == Get(weekCalc.range)

\* Whole calendar days from the epoch date to the date's calendar date.
daysSinceEpoch == civilDate - epochDate

\* C12: calculateWeekNumber(date, epochDate) is floor(D / 7) + 1 clamped to a
\* minimum of 1, D the whole calendar days from the epoch date to the date's
\* calendar date: 1 before the epoch, an integer >= 1, and k + 1 on each of
\* the days epoch + 7k to epoch + 7k + 6.
C12_WeekNumberFormula ==
  (dateGiven /\ weekComputed)
    => /\ weekOut \in Nat /\ weekOut >= 1
       /\ weekOut = IF daysSinceEpoch \div 7 + 1 >= 1
                      THEN daysSinceEpoch \div 7 + 1 ELSE 1
       /\ daysSinceEpoch < 0 => weekOut = 1
       /\ \A k \in 0 .. NumWeekDays :
            (epochDate + 7 * k <= civilDate /\ civilDate <= epochDate + 7 * k + 6)
              => weekOut = k + 1

\* The Dates an hour and whole days after a Date.
LaterDates(date) ==
  {DateOf(getTime(date) + 60)}
    \cup {DateOf(getTime(date) + k * MinutesPerDay) : k \in 1 .. NumWeekDays}

\* C13: for a fixed epoch, a later date never has a smaller week number, and
\* the epoch date itself is in week 1.
C13_NonDecreasing ==
  (dateGiven /\ weekComputed)
    => /\ \A later \in LaterDates(weekDate) :
            weekOut <= calculateWeekNumber(later, epochDate)
       /\ (weekDate = ParseDateOnly(epochDate) \/ civilDate = epochDate)
            => weekOut = 1

\* C13 witness: the week number of the last hour of a week after the first has
\* been computed; an hour later the next week begins.
C13_Witness ==
  /\ dateGiven /\ weekComputed
  /\ weekOut >= 2
  /\ calculateWeekNumber(DateOf(getTime(weekDate) + 60), epochDate) = weekOut + 1

\* The Dates of the hours of the calendar date a Date falls on.
SameDayDates(date) ==
  {d \in {DateOf(getTime([date EXCEPT !.hour = h])) : h \in 0 .. 23} :
     d.day = date.day}

\* C14: two instants on the same calendar date have the same week number,
\* whatever the epoch.
C14_TimeOfDayIrrelevant ==
  (dateGiven /\ weekComputed)
    => \A other \in SameDayDates(weekDate) :
         calculateWeekNumber(other, epochDate) = weekOut

\* C14 witness: the week number of 23:00 of a day on or after the epoch has
\* been computed.
C14_Witness ==
  /\ dateGiven /\ weekComputed
  /\ weekDate.hour = 23
  /\ civilDate >= epochDate
  /\ Cardinality(SameDayDates(weekDate)) >= 23

\* C15: getWeekDateRange(n, epochDate) starts on the calendar date epochDate +
\* 7 (n - 1) and ends 6 days later, for every n >= 1.
C15_WeekDateRange ==
  (weekComputed /\ rangeComputed)
    => /\ rangeOut.startDate = epochDate + 7 * (weekOut - 1)
       /\ rangeOut.endDate = rangeOut.startDate + 6

\* C16: for a date on or after the epoch, the range of the date's week number
\* is a 7-day span that contains the date's calendar date.
C16_RangeContainsDate ==
  (dateGiven /\ weekComputed /\ rangeComputed /\ civilDate >= epochDate)
    => /\ rangeOut.endDate - rangeOut.startDate = 6
       /\ rangeOut.startDate <= civilDate
       /\ civilDate <= rangeOut.endDate

\* C17: the start date of the range of week n is itself in week n.
C17_RoundTrip ==
  (weekComputed /\ rangeComputed /\ weekCalc.weekOfStart # None)
    => Get(weekCalc.weekOfStart) = weekOut

\* ------------------------------------------------------ day type, wait message

\* C18: Saturday and Sunday are weekend and Monday to Friday weekday, for
\* every instant and without an error case; determineClassType and the dayType
\* of every validateLogin result are this classification of the instant's
\* Eastern civil day.
C18_DayTypeClassifier ==
  returned
    => /\ determineClassType(loginTime) \in DayTypes
       /\ determineClassType(loginTime) =
            IF civilDayOfWeek \in {0, 6} THEN "weekend" ELSE "weekday"
       /\ res.dayType = determineClassType(loginTime)

\* The wait the specification words: the zero unit left out, a unit in the
\* plural exactly when its magnitude is not 1.
WaitUnit(magnitude, singular, plural) ==
  <<magnitude, IF magnitude # 1 THEN plural ELSE singular>>
WaitMessage(wait) ==
  LET hours == wait \div 60
      minutes == wait % 60
  IN IF hours # 0 /\ minutes # 0
       THEN WaitUnit(hours, "hour", "hours") \o <<"and">>
              \o WaitUnit(minutes, "minute", "minutes")
     ELSE IF hours # 0 THEN WaitUnit(hours, "hour", "hours")
     ELSE WaitUnit(minutes, "minute", "minutes")

\* C19: a too_early rejection reports the wait earlyOpenMin - nowMin, the time
\* until the admission window opens, as hours and minutes; a weekday student
\* on Monday 15:30 is told to wait the 60 minutes until 16:30.
C19_WaitUntilWindowOpens ==
  returned
    => /\ Rejection(res, "too_early")
            => /\ earlyOpenMin - nowMin > 0
               /\ Get(res.reason).timeMessage = WaitMessage(earlyOpenMin - nowMin)
       /\ (studentClassType = "weekday" /\ civilDayOfWeek = 1 /\ nowMin = At(15, 30))
            => /\ Rejection(res, "too_early")
               /\ Get(res.reason).timeMessage = <<1, "hour">>

\* ------------------------------------------------------ check-in route claims

\* A request past its evaluation, one answered, and the document a
\* successful check-in created.
Evaluated(r) == requests[r].validation # None
Answered(r) == requests[r].pc = "done"
Succeeded(r) ==
  /\ Answered(r)
  /\ requests[r].action = "checkin"
  /\ Get(requests[r].response).status = "success"
RecordOf(r) == attendance[Get(requests[r].response).attendanceId]

\* C11: within one check-in request the Eastern time is computed once, from
\* the request's one reading of the clock, and both the eligibility evaluation
\* and the week number come from that value: whatever the clock shows by the
\* time the request is answered, the response and the stored document carry
\* the late status, the day type and the week number of that one reading.
C11_SingleNow ==
  \A r \in Requesters :
    Evaluated(r)
      => LET req == requests[r]
             easternTime == getEasternTime(Get(req.now))
             evaluation ==
               validateEastern(Get(req.student).classType, easternTime)
             weekNumber ==
               calculateWeekNumber(easternTime, DefaultSystemStartDate)
             response == Get(req.response)
         IN /\ Get(req.validation) = evaluation
            /\ Get(req.weekNumber) = weekNumber
            /\ (Answered(r) /\ ~evaluation.allowed)
                 => /\ response.http = 403
                    /\ response.message = Get(evaluation.reason)
            /\ Succeeded(r)
                 => /\ evaluation.allowed
                    /\ response.checkInTime = Get(req.now)
                    /\ response.weekNumber = weekNumber
                    /\ response.classType = evaluation.dayType
                    /\ response.isLate <=> evaluation.status = Some("late")
                    /\ RecordOf(r).weekNumber = weekNumber
                    /\ RecordOf(r).isLate <=> evaluation.status = Some("late")
                    /\ RecordOf(r).lateMinutes = response.lateMinutes
                    /\ RecordOf(r).isLate
                         => RecordOf(r).lateMinutes
                              = Some(Get(evaluation.minutesLate).val)

\* C11 witness: a check-in evaluated on time at the last on-time minute was
\* logged after the late threshold had passed, and is stored as on time.
C11_Witness ==
  \E r \in Requesters :
    /\ Succeeded(r)
    /\ ~RecordOf(r).isLate
    /\ RecordOf(r).checkInTime # Get(requests[r].now)
    /\ validateLogin(Get(requests[r].student).classType,
                     RecordOf(r).checkInTime).status = Some("late")

\* The Eastern civil day of the check-in a document records.
EasternDay(record) == EasternCivil(record.checkInTime).day

\* C20: a student never has two attendance documents of the same Eastern
\* civil day, and a check-in that finds a document for today creates none and
\* is answered with the warning that carries the time of the first check-in.
C20_OneRecordPerDay ==
  /\ \A i, j \in DOMAIN attendance :
       (i # j /\ attendance[i].studentId = attendance[j].studentId)
         => EasternDay(attendance[i]) # EasternDay(attendance[j])
  /\ \A r \in Requesters :
       (/\ Answered(r)
        /\ requests[r].action = "checkin"
        /\ requests[r].existingAttendance # None)
         => /\ Get(requests[r].response).status = "warning"
            /\ Get(requests[r].response).checkInTime
                 = Get(requests[r].existingAttendance).checkInTime
            /\ ~Succeeded(r)

\* C21: however the check-in requests of one student interleave, the student
\* gets at most one attendance document for a day: no two documents of one
\* student carry the same date and record check-ins of the same Eastern day.
C21_AtMostOneInsert ==
  \A i, j \in DOMAIN attendance :
    (/\ i # j
     /\ attendance[i].studentId = attendance[j].studentId
     /\ attendance[i].date = attendance[j].date)
      => EasternDay(attendance[i]) # EasternDay(attendance[j])

\* A check-in request whose evaluation was a rejection.
Refused(req) == req.validation # None /\ ~Get(req.validation).allowed

\* The documents of the student of a request dated as the request's reading
\* of the clock.
RecordsOfToday(req) ==
  {id \in DOMAIN attendance :
     /\ attendance[id].studentId = Get(req.student).id
     /\ attendance[id].date = dateStr(Get(req.now))}

\* C22: the step in which validateLogin rejects a check-in answers it with
\* HTTP 403 and the rejection reason and leaves the attendance collection as
\* it was, and a rejected request takes no further step.
C22_RejectionWritesNothing ==
  [][\A r \in Requesters :
       /\ (~Refused(requests[r]) /\ Refused(requests'[r]))
            => /\ attendance' = attendance
               /\ requests'[r].pc = "done"
               /\ Get(requests'[r].response).http = 403
               /\ Get(requests'[r].response).status = "error"
               /\ Get(requests'[r].response).message
                    = Get(Get(requests'[r].validation).reason)
               /\ Get(Get(requests'[r].validation).reason).category
                    \in {"wrong_day", "too_early", "class_ended"}
       /\ Refused(requests[r]) => requests'[r] = requests[r]]_vars

\* C22 witness: a check-in was rejected with 403 while the student has a
\* document for today.
C22_Witness ==
  \E r \in Requesters :
    /\ Refused(requests[r])
    /\ Get(requests[r].response).http = 403
    /\ RecordsOfToday(requests[r]) # {}

\* C23: the document a check-in creates agrees with the evaluation that
\* admitted it: isLate exactly when the status was late, lateMinutes the
\* evaluation's minutesLate when late and null when on time (so isLate exactly
\* when lateMinutes is a positive number), status "late" or "present"
\* accordingly, and no checkOutTime.
C23_RecordMatchesEvaluation ==
  [][\A r \in Requesters :
       (requests[r].pc = "logCheckIn" /\ requests'[r].pc = "done")
         => LET record == attendance'[Len(attendance')]
                evaluation == Get(requests[r].validation)
            IN /\ Len(attendance') = Len(attendance) + 1
               /\ SubSeq(attendance', 1, Len(attendance)) = attendance
               /\ record.isLate <=> evaluation.status = Some("late")
               /\ record.isLate
                    => /\ ~Get(evaluation.minutesLate).nan
                       /\ record.lateMinutes
                            = Some(Get(evaluation.minutesLate).val)
               /\ ~record.isLate => record.lateMinutes = None
               /\ record.isLate
                    <=> (record.lateMinutes # None /\ Get(record.lateMinutes) > 0)
               /\ record.status = IF record.isLate THEN "late" ELSE "present"
               /\ record.checkOutTime = None]_vars

\* C23 witness: a check-in evaluated as late has created its document, with
\* the minutes it was late.
C23_Witness ==
  \E r \in Requesters :
    /\ Succeeded(r)
    /\ RecordOf(r).isLate
    /\ RecordOf(r).lateMinutes
         = Some(Get(Get(requests[r].validation).minutesLate).val)

\* A checkout request, and the step in which one ends.
CheckingOut(r) == requests[r].action = "checkout"
EndsCheckOut(r) ==
  CheckingOut(r) /\ requests[r].pc # "done" /\ requests'[r].pc = "done"

\* C24: a checkout writes only when the student has a document for today
\* with no checkOutTime, and then sets checkOutTime of that one document, not
\* before its checkInTime; the checkout answered 400 (no document for today)
\* and the one answered with the warning (already checked out) modify
\* nothing; so the checkOutTime of a document is written at most once.
C24_CheckOutWrittenOnce ==
  [][\A r \in Requesters :
       EndsCheckOut(r)
         => LET response == Get(requests'[r].response)
            IN IF response.status = "success"
                 THEN LET id == response.attendanceId
                      IN /\ attendance[id].studentId = Get(requests[r].student).id
                         /\ attendance[id].checkOutTime = None
                         /\ attendance' =
                              [attendance EXCEPT
                                 ![id].checkOutTime = attendance'[id].checkOutTime]
                         /\ attendance'[id].checkOutTime # None
                         /\ TimeValue(Get(attendance'[id].checkOutTime))
                              >= TimeValue(attendance[id].checkInTime)
                 ELSE /\ attendance' = attendance
                      /\ response.http = 400
                           <=> todayAttendance(Get(requests[r].student).id) = {}
                      /\ response.status = "warning"
                           <=> todayAttendance(Get(requests[r].student).id) # {}]_vars

\* The documents of check-ins of the student of a request made on the Eastern
\* civil day of the request's reading of the clock, before that reading.
EarlierToday(req) ==
  {id \in DOMAIN attendance :
     /\ attendance[id].studentId = Get(req.student).id
     /\ EasternDay(attendance[id]) = EasternCivil(Get(req.now)).day
     /\ TimeValue(attendance[id].checkInTime) < TimeValue(Get(req.now))}

\* C25: a checkout that comes later on the Eastern civil day of the student's
\* check-in finds the document of that check-in and sets its checkOutTime (or
\* finds it already set): it is never answered "has not checked in today".
C25_CheckOutSameDay ==
  \A r \in Requesters :
    (CheckingOut(r) /\ Answered(r) /\ EarlierToday(requests[r]) # {})
      => LET response == Get(requests[r].response)
         IN /\ response.http = 200
            /\ response.status = "success"
                 => /\ response.attendanceId \in EarlierToday(requests[r])
                    /\ attendance[response.attendanceId].checkOutTime # None

\* C26: the date of a stored document is the Eastern civil date of the
\* instant the check-in was evaluated at and, from the system start date on,
\* it lies within the date range of the document's week and the document's
\* weekNumber is the week number of that date.
C26_DateAgreesWithWeek ==
  \A r \in Requesters :
    Succeeded(r)
      => LET record == RecordOf(r)
             range == getWeekDateRange(record.weekNumber, DefaultSystemStartDate)
             evaluatedDay == EasternCivil(Get(requests[r].now)).day
         IN /\ record.date = evaluatedDay
            /\ evaluatedDay >= DefaultSystemStartDate
                 => /\ range.startDate <= record.date
                    /\ record.date <= range.endDate
                    /\ record.weekNumber
                         = calculateWeekNumber(ParseDateOnly(record.date),
                                               DefaultSystemStartDate)

\* ------------------------------------- add-student, POST, and the bulk import

\* The add-student requests in flight and the rows of the uploaded roster.
AddRequesters == {1, 2}
MaxRows == 3

\* What the administrator types as first name (a name, a name in lower case
\* followed by a space, a single space) and as last name, and the names of the
\* rows of an upload.
FirstNames == {<<"A">>, <<"a", " ">>, <<" ">>}
LastNames == {<<"B">>}
RowNames == {<<"A", " ", "B">>, <<"a", " ", "b", " ">>, <<"B">>}

\* The name a roster entry is compared by: s.name.toLowerCase().trim()
nameKey(studentName) == trim(toLowerCase(studentName))

NewAddRequest(firstName, lastName, classType) ==
  [firstName |-> firstName, lastName |-> lastName, classType |-> classType,
   pc |-> "start", response |-> None]

\* let success = 0 ... const errors = []: the call before its first await.
NewImport(rows) ==
  [students |-> rows, pc |-> "start", row |-> 1,
   existingNames |-> {}, importedNames |-> {},
   success |-> 0, failed |-> 0, skipped |-> 0, errors |-> <<>>,
   importResult |-> None]

\* Two add-student requests and one upload, with nobody or "A B" on the
\* roster.
InitRoster ==
  /\ hourCycle = "h23"
  /\ studentClassType = "both"
  /\ loginTime = [day |-> 0, minute |-> 0, second |-> 0, dst |-> FALSE]
  /\ result = None /\ phases = <<>> /\ calls = NoCalls
  /\ WeekIdle /\ RouteIdle
  /\ students \in {<<>>, <<newStudent(1, RosterNames[1], "weekend")>>}
  /\ \E firstName \in [AddRequesters -> FirstNames],
        lastName \in [AddRequesters -> LastNames],
        classType \in {"weekend", "weekday"} :
       addRequests =
         [a \in AddRequesters |->
            NewAddRequest(firstName[a], lastName[a],
                          IF a = 1 THEN "weekend" ELSE classType)]
  /\ \E rows \in [1 .. MaxRows -> RowNames] :
       bulkImport =
         NewImport([i \in 1 .. MaxRows |->
                      [name |-> rows[i], classType |-> "weekday"]])

\* The responses of add-student.
Conflict(duplicate) == [http |-> 409, status |-> "error", name |-> duplicate.name]
Added(studentId, fullName) ==
  [http |-> 200, status |-> "success", studentId |-> studentId,
   studentName |-> fullName]
ServerError == [http |-> 500, status |-> "error"]

\* existingStudents.find(student => student.name.toLowerCase() ===
\* fullNameLower): the active students the new name collides with.
duplicatesOf(fullName) ==
  {doc \in getActiveStudents : toLowerCase(doc.name) = toLowerCase(fullName)}

\* existingStudents = await getActiveStudents(); 409 if one of them has the
\* name, or 500 if the query fails.
FindDuplicate(a) ==
  LET req == addRequests[a]
      fullName == fullNameOf(req.firstName, req.lastName)
  IN /\ req.pc = "start"
     /\ \/ /\ duplicatesOf(fullName) = {}
           /\ addRequests' = [addRequests EXCEPT ![a].pc = "addStudent"]
        \/ \E duplicate \in firstByName(duplicatesOf(fullName)) :
             addRequests' =
               [addRequests EXCEPT ![a].pc = "done",
                                   ![a].response = Some(Conflict(duplicate))]
        \/ addRequests' = [addRequests EXCEPT ![a].pc = "done",
                                              ![a].response = Some(ServerError)]
     /\ UNCHANGED <<hourCycle, studentClassType, loginTime, result, phases, calls>>
     /\ UNCHANGED <<weekVars, routeVars, students, bulkImport>>

\* studentId = await addStudent(fullName, classType): the document is added
\* and the success returned, or addDoc fails and 500 is returned.
AddStudent(a) ==
  LET req == addRequests[a]
      fullName == fullNameOf(req.firstName, req.lastName)
      studentId == Len(students) + 1
  IN /\ req.pc = "addStudent"
     /\ \/ /\ students' =
                Append(students, newStudent(studentId, fullName, req.classType))
           /\ addRequests' =
                [addRequests EXCEPT ![a].pc = "done",
                                    ![a].response = Some(Added(studentId, fullName))]
        \/ /\ students' = students
           /\ addRequests' = [addRequests EXCEPT ![a].pc = "done",
                                                 ![a].response = Some(ServerError)]
     /\ UNCHANGED <<hourCycle, studentClassType, loginTime, result, phases, calls>>
     /\ UNCHANGED <<weekVars, routeVars, bulkImport>>

\* existingStudents = await getActiveStudents(); existingNames = new Set(...):
\* or the query fails, the call throws and handleImport reports every row as
\* failed.
ImportStart ==
  /\ bulkImport # NoImport
  /\ bulkImport.pc = "start"
  /\ \/ bulkImport' =
          [bulkImport EXCEPT
             !.existingNames = {nameKey(doc.name) : doc \in getActiveStudents},
             !.pc = "rows"]
     \/ bulkImport' =
          [bulkImport EXCEPT
             !.pc = "thrown",
             !.importResult =
               Some([success |-> 0, failed |-> Len(bulkImport.students),
                     skipped |-> 0, errors |-> <<"Failed to import students">>])]
  /\ UNCHANGED <<hourCycle, studentClassType, loginTime, result, phases, calls>>
  /\ UNCHANGED <<weekVars, routeVars, students, addRequests>>

\* What becomes of a row: skipped as existing, skipped as duplicate of the
\* upload, imported, or failed in addStudent.
rowOutcome(nameLower, existingNames, importedNames, added) ==
  IF nameLower \in existingNames THEN "Already exists in the system"
  ELSE IF nameLower \in importedNames THEN "Duplicate in upload file"
  ELSE IF added THEN "success"
  ELSE "Failed to import"

\* Mutant: a row that fails counted as failed and as skipped.
tally_Both(import, outcome) ==
  IF outcome = "success" THEN [import EXCEPT !.success = @ + 1]
  ELSE IF outcome = "Failed to import"
    THEN [import EXCEPT !.failed = @ + 1, !.skipped = @ + 1,
                        !.errors = Append(@, outcome)]
  ELSE [import EXCEPT !.skipped = @ + 1, !.errors = Append(@, outcome)]

\* success++, or skipped++ / failed++ with errors.push(...)
tally(import, outcome) ==
  IF outcome = "success" THEN [import EXCEPT !.success = @ + 1]
  ELSE IF outcome = "Failed to import"
    THEN [import EXCEPT !.failed = @ + 1, !.errors = Append(@, outcome)]
  ELSE [import EXCEPT !.skipped = @ + 1, !.errors = Append(@, outcome)]

\* One turn of for (const student of students): the two duplicate checks,
\* await addStudent (which may throw), the counters and the sets.
ImportRow ==
  LET row == bulkImport.students[bulkImport.row]
      nameLower == nameKey(row.name)
  IN /\ bulkImport # NoImport
     /\ bulkImport.pc = "rows"
     /\ bulkImport.row <= Len(bulkImport.students)
     /\ \E added \in BOOLEAN :
          LET outcome == rowOutcome(nameLower, bulkImport.existingNames,
                                    bulkImport.importedNames, added)
              counted == tally(bulkImport, outcome)
          IN /\ students' =
                  IF outcome = "success"
                    THEN Append(students,
                                newStudent(Len(students) + 1, row.name,
                                           row.classType))
                    ELSE students
             /\ bulkImport' =
                  [counted EXCEPT
                     !.row = @ + 1,
                     !.importedNames =
                       IF outcome = "success" THEN @ \cup {nameLower} ELSE @,
                     !.existingNames =
                       IF outcome = "success" THEN @ \cup {nameLower} ELSE @]
     /\ UNCHANGED <<hourCycle, studentClassType, loginTime, result, phases, calls>>
     /\ UNCHANGED <<weekVars, routeVars, addRequests>>

\* return { success, failed, skipped, errors }, which handleImport shows.
ImportReturn ==
  /\ bulkImport # NoImport
  /\ bulkImport.pc = "rows"
  /\ bulkImport.row > Len(bulkImport.students)
  /\ bulkImport' =
       [bulkImport EXCEPT
          !.pc = "returned",
          !.importResult =
            Some([success |-> bulkImport.success, failed |-> bulkImport.failed,
                  skipped |-> bulkImport.skipped, errors |-> bulkImport.errors])]
  /\ UNCHANGED <<hourCycle, studentClassType, loginTime, result, phases, calls>>
  /\ UNCHANGED <<weekVars, routeVars, students, addRequests>>

NextRoster ==
  \/ \E a \in AddRequesters : FindDuplicate(a) \/ AddStudent(a)
  \/ ImportStart
  \/ ImportRow
  \/ ImportReturn

SpecRoster == InitRoster /\ [][NextRoster]_vars

\* --------------------------------------------------------- the roster claims

\* The students a typed name selects, deleted or not.
Selected(typed) ==
  {id \in DOMAIN students :
     searchMatches(students[id].name, trim(toLowerCase(trim(typed))))}

\* The step in which a request is searched for its student.
Searches(r) == requests[r].pc = "search" /\ requests'[r].pc # "search"

\* C29: deleting a student only sets active = false on that document and
\* leaves the attendance collection as it is; no step makes a deleted student
\* active again, a deleted student is in no result of getActiveStudents or
\* searchStudents, and a request whose name selects deleted students only is
\* answered 404 and creates no document.
C29_SoftDelete ==
  [][/\ attendance' # attendance => students' = students
     /\ \A id \in DOMAIN students :
          /\ students'[id] \in {students[id], [students[id] EXCEPT !.active = FALSE]}
          /\ ~students[id].active
               => /\ ~students'[id].active
                  /\ students[id] \notin getActiveStudents
                  /\ \A typed \in TypedNames :
                       students[id] \notin searchStudents(typed)
     /\ DOMAIN students' = DOMAIN students
     /\ \A r \in Requesters :
          /\ Searches(r)
               => /\ requests'[r].student # None
                       => Get(requests'[r].student).active
                  /\ (\A id \in Selected(requests[r].name) : ~students[id].active)
                       => /\ Get(requests'[r].response).http = 404
                          /\ requests'[r].pc = "done"
                          /\ attendance' = attendance
          /\ requests[r].pc = "done" => requests'[r] = requests[r]]_vars

\* C29 witness: a student with an attendance document has been deleted, the
\* document is still there, and a request under the student's name has been
\* answered 404.
C29_Witness ==
  \E r \in Requesters, id \in DOMAIN students :
    /\ ~students[id].active
    /\ Selected(requests[r].name) = {id}
    /\ Answered(r)
    /\ Get(requests[r].response).http = 404
    /\ \E a \in DOMAIN attendance : attendance[a].studentId = id

\* C27: whatever add-student requests and bulk imports have run, in whatever
\* order their steps were taken, no two active students have the same name
\* up to letter case and surrounding whitespace, and an add-student request
\* answered 409 names an active student of that name.
C27_NoDuplicateNames ==
  /\ \A i, j \in DOMAIN students :
       (i # j /\ students[i].active /\ students[j].active)
         => nameKey(students[i].name) # nameKey(students[j].name)
  /\ \A a \in AddRequesters :
       (addRequests[a].pc = "done"
        /\ Get(addRequests[a].response).http = 409)
         => \E id \in DOMAIN students :
              /\ students[id].active
              /\ students[id].name = Get(addRequests[a].response).name
              /\ nameKey(students[id].name)
                   = nameKey(fullNameOf(addRequests[a].firstName,
                                        addRequests[a].lastName))

\* C28: bulkImportStudents accounts for every row once: after each row the
\* counters add up to the rows handled and errors has one entry per skipped
\* or failed row; success grows exactly when the call adds a document; a row
\* that fails is followed by the next row; and the result returned has
\* success + failed + skipped equal to the number of rows.
C28_EveryRowCounted ==
  [][bulkImport' # bulkImport
       => LET import == bulkImport'
              rows == Len(import.students)
          IN /\ import.pc \in {"rows", "returned"}
                  => /\ import.success + import.failed + import.skipped
                          = import.row - 1
                     /\ Len(import.errors) = import.failed + import.skipped
                     /\ import.success - bulkImport.success
                          = Len(students') - Len(students)
                     /\ import.success - bulkImport.success \in {0, 1}
             /\ (import.failed > bulkImport.failed /\ bulkImport.row < rows)
                  => import.pc = "rows" /\ import.row = bulkImport.row + 1
             /\ import.pc = "returned"
                  => LET reported == Get(import.importResult)
                     IN /\ reported.success + reported.failed + reported.skipped
                             = rows
                        /\ reported.success = import.success
                        /\ Len(reported.errors)
                             = reported.failed + reported.skipped
                        /\ students' = students]_vars

\* C28 witness: an upload has returned with a row imported, a row skipped and
\* a row failed, the failed one not the last.
C28_Witness ==
  /\ bulkImport # NoImport
  /\ bulkImport.pc = "returned"
  /\ Get(bulkImport.importResult).success > 0
  /\ Get(bulkImport.importResult).skipped > 0
  /\ Get(bulkImport.importResult).failed > 0
  /\ bulkImport.errors[Len(bulkImport.errors)] # "Failed to import"

====
